---- MODULE Spec2Model ----
(***************************************************************************)
(* Model of ros_pybullet_interface_node.py: the PybulletObjects registry   *)
(* (a dict subclass), the five service handlers of Node, Node.close, and   *)
(* the simulation stepper that runs next to them.  rospy serves every      *)
(* service call in a thread of its own, so each handler is a process whose *)
(* steps are the places where it touches the registry or the backend.      *)
(***************************************************************************)
EXTENDS Integers, Sequences, FiniteSets, TLC

\* ------------------------------------------------------------- bounds ----
Names == {"box1", "box2"}
Handlers == {"h1", "h2"}
MaxObjs == 2
MaxCounter == 2
MaxDestroy == 2
MaxKindCode == 6
MaxStrLen == 3
MaxListLen == 2
MaxOptInt == 2
DynVals == {0, 1}

\* ------------------------------------------------- PybulletObject.msg ----
VISUAL == 0
COLLISION == 1
DYNAMIC == 2
ROBOT == 3
SOFT == 4
URDF == 5

VARIABLES
    pybullet_objects,   \* the dict, in insertion order: <<[name, obj], ...>>
    constructed,        \* number of object instances constructed so far
    objType,            \* instance -> class it was constructed from
    destroyCalls,       \* instance -> number of destroy() calls received
    pose,               \* instance -> base position and orientation
    dyn,                \* instance -> dynamics of the base link
    counter,            \* Node.counter
    stepping,           \* a simulation step is in progress
    connected,          \* the backend connection is open
    pc, req, obj, resp, \* per handler thread: position, request, local
                        \* `object`, and the outcome the caller received
    closePc, closeKey,  \* Node.close: position and local `k`
    closeObjs,          \* history: the instances registered when close began
    options, parsed     \* Node.parse_options: its argument and its outcome

vars == <<pybullet_objects, constructed, objType, destroyCalls, pose, dyn,
          counter, stepping, connected, pc, req, obj, resp, closePc, closeKey,
          closeObjs, options, parsed>>

Objs == 1..MaxObjs

\* ----------------------------------------------------- dict operations ---
DictKeys(d) == {d[i].name : i \in 1..Len(d)}

DictGet(d, name) == d[CHOOSE i \in 1..Len(d) : d[i].name = name].obj

DictDel(d, name) == SelectSeq(d, LAMBDA e : e.name # name)

DictSet(d, name, o) == Append(d, [name |-> name, obj |-> o])

\* ------------------------------------------------- requests, responses ---
NoDyn == [mass |-> 0, lateralFriction |-> 0]

NoReq == [op |-> "none", name |-> "", kind |-> 0, filename |-> FALSE,
          config |-> FALSE, loadable |-> FALSE, dynamics |-> NoDyn,
          fieldsSet |-> {}]

\* AddPybulletObject requests: the config (file or string) holds the name;
\* `loadable` says whether load_config/load_configs can read it.
AddRequests(names, kinds, sources) ==
    {[op |-> "add", name |-> n, kind |-> k, filename |-> s.filename,
      config |-> s.config, loadable |-> s.loadable, dynamics |-> NoDyn,
      fieldsSet |-> {}] :
        n \in names, k \in kinds, s \in sources}

AnySource == [filename : BOOLEAN, config : BOOLEAN, loadable : BOOLEAN]

GoodSource == {[filename |-> FALSE, config |-> TRUE, loadable |-> TRUE]}

\* SetString, GetObjectDynamics and GetObjectPosition requests.
NameRequests(op, names) ==
    {[NoReq EXCEPT !.op = op, !.name = n] : n \in names}

\* The fields of ObjectDynamics.msg the model keeps.
DynFields == {"mass", "lateralFriction"}

\* ChangeObjectDynamics requests whose client assigned every field.
ChangeRequests(names, vals) ==
    {[NoReq EXCEPT !.op = "change_dynamics", !.name = n, !.dynamics = d,
                   !.fieldsSet = DynFields] :
        n \in names, d \in [mass : vals, lateralFriction : vals]}

\* ChangeObjectDynamics requests whose client assigned the fields of
\* `fieldsSet` only: the others travel with the value a new ObjectDynamics()
\* message has.  `fieldsSet` is the client's knowledge; no handler reads it.
ChangeSubsetRequests(names, vals) ==
    {[NoReq EXCEPT
        !.op = "change_dynamics", !.name = n, !.fieldsSet = S,
        !.dynamics =
            [mass |-> IF "mass" \in S THEN d.mass ELSE NoDyn.mass,
             lateralFriction |-> IF "lateralFriction" \in S
                                   THEN d.lateralFriction
                                   ELSE NoDyn.lateralFriction]] :
        n \in names, S \in SUBSET DynFields,
        d \in [mass : vals, lateralFriction : vals]}

NoResp == [op |-> "none", status |-> "none", message |-> "", payload |-> NoDyn,
           position |-> "none"]

\* A response object returned by the handler.  Every handler builds its
\* response from success and message; GetObjectDynamics alone adds a payload
\* (line 234), and no handler fills in a pose (lines 249, 299).
Response(r, success, message) ==
    [op |-> r.op, status |-> IF success THEN "success" ELSE "failure",
     message |-> message, payload |-> NoDyn, position |-> "none"]

\* The handler ended with an exception instead of a response.
Raised(r, error) ==
    [op |-> r.op, status |-> "raised", message |-> error, payload |-> NoDyn,
     position |-> "none"]

\* The handler returns or raises: its locals are gone, the caller holds `out`.
Finish(t, out) ==
    /\ resp' = [resp EXCEPT ![t] = out]
    /\ pc' = [pc EXCEPT ![t] = "idle"]
    /\ req' = [req EXCEPT ![t] = NoReq]
    /\ obj' = [obj EXCEPT ![t] = 0]

Goto(t, label) ==
    /\ pc' = [pc EXCEPT ![t] = label]
    /\ UNCHANGED <<req, resp>>

\* -------------------------------------------------------- Python values --
\* The values parse_options meets, as records of one shape: an int (n), a str
\* (s, a sequence of characters), a list (items), None, and a function (an
\* attribute of the pybullet module that is not an integer).
IntVal(n) == [type |-> "int", n |-> n, s |-> <<>>, items |-> <<>>]

StrVal(s) == [type |-> "str", n |-> 0, s |-> s, items |-> <<>>]

ListVal(items) == [type |-> "list", n |-> 0, s |-> <<>>, items |-> items]

NoneVal == [type |-> "none", n |-> 0, s |-> <<>>, items |-> <<>>]

FunctionVal == [type |-> "function", n |-> 0, s |-> <<>>, items |-> <<>>]

\* What a call gave its caller: a value, or the exception that left it.
Returned(v) == [status |-> "ok", value |-> v]

RaisedError(error) == [status |-> error, value |-> NoneVal]

NotParsed == [status |-> "none", value |-> NoneVal]

\* ------------------------------------------------------------- Init ------
InitNode ==
    /\ pybullet_objects = <<>>
    /\ constructed = 0
    /\ objType = [o \in Objs |-> "none"]
    /\ destroyCalls = [o \in Objs |-> 0]
    /\ pose = [o \in Objs |-> "none"]
    /\ dyn = [o \in Objs |-> NoDyn]
    /\ counter = 0
    /\ stepping = FALSE
    /\ connected = TRUE
    /\ pc = [t \in Handlers |-> "idle"]
    /\ req = [t \in Handlers |-> NoReq]
    /\ obj = [t \in Handlers |-> 0]
    /\ resp = [t \in Handlers |-> NoResp]
    /\ closePc = "idle"
    /\ closeKey = ""
    /\ closeObjs = {}

Init ==
    /\ InitNode
    /\ options = NoneVal
    /\ parsed = NotParsed

\* --------------------------------------------------- object capability ---
\* A resolution that falls back to the visual class for an unknown code.
ObjectTypeOf_OpenEnded(code) ==
    CASE code = VISUAL -> "PybulletVisualObject"
      [] code = COLLISION -> "PybulletCollisionObject"
      [] code = DYNAMIC -> "PybulletDynamicObject"
      [] code = ROBOT -> "PybulletRobot"
      [] code = SOFT -> "PybulletSoftBodyObject"
      [] code = URDF -> "PybulletURDF"
      [] OTHER -> "PybulletVisualObject"

\* Lines 142-153: the class a kind code selects.
ObjectTypeOf(code) ==
    CASE code = VISUAL -> "PybulletVisualObject"
      [] code = COLLISION -> "PybulletCollisionObject"
      [] code = DYNAMIC -> "PybulletDynamicObject"
      [] code = ROBOT -> "PybulletRobot"
      [] code = SOFT -> "PybulletSoftBodyObject"
      [] code = URDF -> "PybulletURDF"
      [] OTHER -> "unrecognized"

\* Classes of rpbi with link-indexed dynamics (get_dynamics/change_dynamics).
SupportsDynamics(type) ==
    type \in {"PybulletCollisionObject", "PybulletDynamicObject", "PybulletRobot"}

\* Ways object_type(pybullet, node, config) can end.
ConstructOutcomes == {"ok", "BackendConstructError"}

\* Ways destroy() can end.
DestroyOutcomes == {"ok", "Exception", "KeyError"}

\* Ways a backend get/set on a dynamics-supporting object can end.
CallOutcomes == {"ok", "InvalidLinkIndex", "BackendCallError"}

\* ------------------------------------------------------ start a request --
\* Adds and position queries still to run (they advance bounded counters).
InFlight(labels) == Cardinality({t \in Handlers : pc[t] \in labels})

EntryLabel(op) ==
    CASE op = "add" -> "add_begin"
      [] op = "remove" -> "rm_destroy"
      [] OTHER -> "check"

\* rospy hands a request of the set R to a handler thread (lines 90-94).
StartRequest(t, R) ==
    /\ pc[t] = "idle"
    /\ closePc = "idle"
    /\ \E r \in R :
        /\ r.op = "add" =>
             constructed + InFlight({"add_begin", "add_construct"}) < MaxObjs
        /\ r.op = "get_position" =>
             counter + Cardinality({u \in Handlers :
                 pc[u] # "idle" /\ req[u].op = "get_position"}) < MaxCounter
        /\ req' = [req EXCEPT ![t] = r]
        /\ pc' = [pc EXCEPT ![t] = EntryLabel(r.op)]
    /\ resp' = [resp EXCEPT ![t] = NoResp]
    /\ UNCHANGED <<pybullet_objects, constructed, objType, destroyCalls, pose,
                   dyn, counter, stepping, connected, obj, closePc, closeKey, closeObjs,
                   options, parsed>>

\* ------------------------------------------------------------ AddObject --
\* add() without its duplicate check.
AddNameTaken_Never(name) == FALSE

\* PybulletObjects.add, line 35.
AddNameTaken(name) == name \in DictKeys(pybullet_objects)

\* What the handler passes on to add(): the loaded config (its name) and the
\* class; the request's other fields are not read again.
AddArgs(r) == [NoReq EXCEPT !.op = r.op, !.name = r.name, !.kind = r.kind]

\* A handler that goes on to load and add whether or not the request names
\* a config source.
AddBegin_NoSourceCheck(t) ==
    /\ pc[t] = "add_begin"
    /\ LET r == req[t] IN
         IF ObjectTypeOf(r.kind) = "unrecognized"
           THEN Finish(t, Response(r, FALSE, "unrecognized_type"))
         ELSE IF ~r.loadable
           THEN Finish(t, Response(r, FALSE, "load_error"))
         ELSE IF AddNameTaken(r.name)
           THEN Finish(t, Response(r, FALSE, "duplicate_name"))
         ELSE /\ pc' = [pc EXCEPT ![t] = "add_construct"]
              /\ req' = [req EXCEPT ![t] = AddArgs(r)]
              /\ UNCHANGED <<resp, obj>>
    /\ UNCHANGED <<pybullet_objects, constructed, objType, destroyCalls, pose,
                   dyn, counter, stepping, connected, closePc, closeKey, closeObjs,
                   options, parsed>>

\* Lines 138-184 up to the call of the class, with add's check (34-36).
AddBegin(t) ==
    /\ pc[t] = "add_begin"
    /\ LET r == req[t] IN
         IF ObjectTypeOf(r.kind) = "unrecognized"
           THEN Finish(t, Response(r, FALSE, "unrecognized_type"))
         ELSE IF ~(r.filename \/ r.config)
           THEN Finish(t, Response(r, FALSE, "missing_config"))
         ELSE IF ~r.loadable
           THEN Finish(t, Response(r, FALSE, "load_error"))
         ELSE IF AddNameTaken(r.name)
           THEN Finish(t, Response(r, FALSE, "duplicate_name"))
         ELSE /\ pc' = [pc EXCEPT ![t] = "add_construct"]
              /\ req' = [req EXCEPT ![t] = AddArgs(r)]
              /\ UNCHANGED <<resp, obj>>
    /\ UNCHANGED <<pybullet_objects, constructed, objType, destroyCalls, pose,
                   dyn, counter, stepping, connected, closePc, closeKey, closeObjs,
                   options, parsed>>

\* An add() that stores the name before the class has built the object, and
\* leaves the entry behind when the class raises.
AddConstruct_RegistersFirst(t) ==
    /\ pc[t] = "add_construct"
    /\ \E out \in ConstructOutcomes :
         IF out = "ok"
           THEN /\ constructed < MaxObjs
                /\ constructed' = constructed + 1
                /\ objType' = [objType EXCEPT
                                 ![constructed + 1] = ObjectTypeOf(req[t].kind)]
                /\ pose' = [pose EXCEPT ![constructed + 1] = "initial"]
                /\ obj' = [obj EXCEPT ![t] = constructed + 1]
                /\ Goto(t, "add_setitem")
                /\ UNCHANGED pybullet_objects
           ELSE /\ constructed < MaxObjs
                /\ pybullet_objects' =
                      DictSet(pybullet_objects, req[t].name, constructed + 1)
                /\ Finish(t, Response(req[t], FALSE, "construct_error"))
                /\ UNCHANGED <<constructed, objType, pose>>
    /\ UNCHANGED <<destroyCalls, dyn, counter, stepping, connected, closePc,
                   closeKey, closeObjs,
                   options, parsed>>

\* Line 37, right-hand side: object_type(pybullet, self.node, config).
AddConstruct(t) ==
    /\ pc[t] = "add_construct"
    /\ \E out \in ConstructOutcomes :
         IF out = "ok"
           THEN /\ constructed < MaxObjs
                /\ constructed' = constructed + 1
                /\ objType' = [objType EXCEPT
                                 ![constructed + 1] = ObjectTypeOf(req[t].kind)]
                /\ pose' = [pose EXCEPT ![constructed + 1] = "initial"]
                /\ obj' = [obj EXCEPT ![t] = constructed + 1]
                /\ Goto(t, "add_setitem")
           ELSE /\ Finish(t, Response(req[t], FALSE, "construct_error"))
                /\ UNCHANGED <<constructed, objType, pose>>
    /\ UNCHANGED <<pybullet_objects, destroyCalls, dyn, counter,
                   stepping, connected, closePc, closeKey, closeObjs,
                   options, parsed>>

\* Line 37, the assignment: PybulletObjects.__setitem__ (39-42).
AddSetItem(t) ==
    /\ pc[t] = "add_setitem"
    /\ IF req[t].name \in DictKeys(pybullet_objects)
         THEN /\ Finish(t, Response(req[t], FALSE, "duplicate_name"))
              /\ UNCHANGED pybullet_objects
         ELSE /\ pybullet_objects' =
                    DictSet(pybullet_objects, req[t].name, obj[t])
              /\ Finish(t, Response(req[t], TRUE, "added"))
    /\ UNCHANGED <<constructed, objType, destroyCalls, pose, dyn, counter,
                   stepping, connected, closePc, closeKey, closeObjs,
                   options, parsed>>

\* --------------------------------------------------------- RemoveObject --
\* A handler that swallows the KeyError and reports the removal as done.
KeyErrorResponse_Swallowed(r) == Response(r, TRUE, "removed")

\* Lines 357-359: the handler's answer to a KeyError.
KeyErrorResponse(r) == Response(r, FALSE, "does_not_exist")

\* Lines 361-364: the handler's answer to any other exception.
RemoveFailedResponse(r) == Response(r, FALSE, "failed_to_remove")

\* PybulletObjects.__delitem__, line 46: self[name].destroy().
\* `out` is how it ends: "missing" for the KeyError of self[name].
\* A destroy() that ends well has removed the body from the backend.
DelItemDestroy(name, out) ==
    IF name \notin DictKeys(pybullet_objects)
      THEN out = "missing" /\ UNCHANGED <<destroyCalls, pose, dyn>>
      ELSE LET o == DictGet(pybullet_objects, name) IN
             /\ out \in DestroyOutcomes
             /\ destroyCalls[o] < MaxDestroy
             /\ destroyCalls' = [destroyCalls EXCEPT ![o] = @ + 1]
             /\ IF out = "ok"
                  THEN /\ pose' = [pose EXCEPT ![o] = "none"]
                       /\ dyn' = [dyn EXCEPT ![o] = NoDyn]
                  ELSE UNCHANGED <<pose, dyn>>

\* A __delitem__ that destroys the object but forgets to drop the key.
DelItemUnmap_KeepsKey(name, out) ==
    /\ out = IF name \in DictKeys(pybullet_objects) THEN "ok" ELSE "KeyError"
    /\ UNCHANGED pybullet_objects

\* PybulletObjects.__delitem__, line 47: super().__delitem__(name).
DelItemUnmap(name, out) ==
    IF name \in DictKeys(pybullet_objects)
      THEN out = "ok" /\ pybullet_objects' = DictDel(pybullet_objects, name)
      ELSE out = "KeyError" /\ UNCHANGED pybullet_objects

\* Lines 348-372, first half of the del statement.
RemoveDestroy(t) ==
    /\ pc[t] = "rm_destroy"
    /\ \E out \in DestroyOutcomes \cup {"missing"} :
        /\ DelItemDestroy(req[t].name, out)
        /\ CASE out = "ok" -> Goto(t, "rm_unmap") /\ UNCHANGED obj
             [] out = "Exception" -> Finish(t, RemoveFailedResponse(req[t]))
             [] OTHER -> Finish(t, KeyErrorResponse(req[t]))
    /\ UNCHANGED <<pybullet_objects, constructed, objType, counter,
                   stepping, connected, closePc, closeKey, closeObjs,
                   options, parsed>>

\* Lines 348-372, second half of the del statement.
RemoveUnmap(t) ==
    /\ pc[t] = "rm_unmap"
    /\ \E out \in {"ok", "KeyError"} :
        /\ DelItemUnmap(req[t].name, out)
        /\ IF out = "ok"
             THEN Finish(t, Response(req[t], TRUE, "removed"))
             ELSE Finish(t, KeyErrorResponse(req[t]))
    /\ UNCHANGED <<constructed, objType, destroyCalls, pose, dyn, counter,
                   stepping, connected, closePc, closeKey, closeObjs,
                   options, parsed>>

\* ------------------------------ GetDynamics, ChangeDynamics, GetPosition --
CallLabel(op) ==
    CASE op = "get_dynamics" -> "gd_call"
      [] op = "change_dynamics" -> "cd_call"
      [] OTHER -> "gp_call"

\* Lines 192, 242, 307: `req.object_name in self.pybullet_objects`, and the
\* else branch that answers an unknown name.
CheckName(t) ==
    /\ pc[t] = "check"
    /\ IF req[t].name \in DictKeys(pybullet_objects)
         THEN Goto(t, "get") /\ UNCHANGED obj
         ELSE Finish(t, Response(req[t], FALSE, "name_unrecognized"))
    /\ UNCHANGED <<pybullet_objects, constructed, objType, destroyCalls, pose,
                   dyn, counter, stepping, connected, closePc, closeKey, closeObjs,
                   options, parsed>>

\* Lines 193, 243, 308: `object = self.pybullet_objects[req.object_name]`.
GetObject(t) ==
    /\ pc[t] = "get"
    /\ IF req[t].name \in DictKeys(pybullet_objects)
         THEN /\ obj' = [obj EXCEPT
                           ![t] = DictGet(pybullet_objects, req[t].name)]
              /\ Goto(t, CallLabel(req[t].op))
         ELSE Finish(t, Raised(req[t], "KeyError"))
    /\ UNCHANGED <<pybullet_objects, constructed, objType, destroyCalls, pose,
                   dyn, counter, stepping, connected, closePc, closeKey, closeObjs,
                   options, parsed>>

\* The body of instance o is in the backend.
BodyExists(o) == pose[o] # "none"

\* How a backend call on instance o may end: only badly once the body is gone.
OutcomesOn(o, outcomes) ==
    IF BodyExists(o) THEN outcomes ELSE {"BackendCallError"}

\* Lines 219-234: object.get_dynamics(link_index) and the response built
\* from it; nothing around the call catches what it raises.
GetDynamicsCall(t) ==
    /\ pc[t] = "gd_call"
    /\ IF ~SupportsDynamics(objType[obj[t]])
         THEN Finish(t, Raised(req[t], "UnsupportedOperation"))
         ELSE \E out \in OutcomesOn(obj[t], CallOutcomes) :
                IF out = "ok"
                  THEN Finish(t, [Response(req[t], TRUE, "got_dynamics")
                                    EXCEPT !.payload = dyn[obj[t]]])
                  ELSE Finish(t, Raised(req[t], out))
    /\ UNCHANGED <<pybullet_objects, constructed, objType, destroyCalls, pose,
                   dyn, counter, stepping, connected, closePc, closeKey, closeObjs,
                   options, parsed>>

\* Lines 329-345: every field of the message is handed to
\* object.change_dynamics(object_dynamics, link_index).
ChangeDynamicsCall(t) ==
    /\ pc[t] = "cd_call"
    /\ IF ~SupportsDynamics(objType[obj[t]])
         THEN Finish(t, Raised(req[t], "UnsupportedOperation"))
              /\ UNCHANGED dyn
         ELSE \E out \in OutcomesOn(obj[t], CallOutcomes) :
                IF out = "ok"
                  THEN /\ dyn' = [dyn EXCEPT ![obj[t]] = req[t].dynamics]
                       /\ Finish(t, Response(req[t], TRUE, "changed_dynamics"))
                  ELSE /\ Finish(t, Raised(req[t], out))
                       /\ UNCHANGED dyn
    /\ UNCHANGED <<pybullet_objects, constructed, objType, destroyCalls, pose,
                   counter, stepping, connected, closePc, closeKey, closeObjs,
                   options, parsed>>

\* Lines 274-275: the pose the handler writes.
NewPose == "reset"

\* Lines 269-299: read basePosition/baseOrientation, then
\* resetBasePositionAndOrientation to the hard-coded pose, then counter += 1.
GetPositionCall(t) ==
    /\ pc[t] = "gp_call"
    /\ \E out \in OutcomesOn(obj[t], {"ok", "BackendCallError"}) :
         IF out = "ok"
           THEN /\ pose' = [pose EXCEPT ![obj[t]] = NewPose]
                /\ counter' = counter + 1
                /\ Finish(t, Response(req[t], TRUE, "got_position"))
           ELSE /\ Finish(t, Raised(req[t], out))
                /\ UNCHANGED <<pose, counter>>
    /\ UNCHANGED <<pybullet_objects, constructed, objType, destroyCalls, dyn,
                   stepping, connected, closePc, closeKey, closeObjs,
                   options, parsed>>

\* -------------------------------------------------------------- stepper --
\* The stepper takes the shared mutation lock and starts a tick.  No handler
\* of the node ever takes that lock, so `stepping` is all of it that shows.
StepBegin ==
    /\ connected
    /\ ~stepping
    /\ stepping' = TRUE
    /\ UNCHANGED <<pybullet_objects, constructed, objType, destroyCalls, pose,
                   dyn, counter, connected, pc, req, obj, resp, closePc,
                   closeKey, closeObjs,
                   options, parsed>>

\* The tick ends: registered dynamic bodies have moved; the lock is released.
StepEnd ==
    /\ stepping
    /\ stepping' = FALSE
    /\ pose' = [o \in Objs |->
                  IF /\ \E i \in 1..Len(pybullet_objects) :
                           pybullet_objects[i].obj = o
                     /\ objType[o] = "PybulletDynamicObject"
                    THEN "moved" ELSE pose[o]]
    /\ UNCHANGED <<pybullet_objects, constructed, objType, destroyCalls, dyn,
                   counter, connected, pc, req, obj, resp, closePc, closeKey, closeObjs,
                   options, parsed>>

\* ---------------------------------------------------------------- close --
\* Line 57: the shutdown hook runs close().
CloseStart ==
    /\ closePc = "idle"
    /\ closePc' = "loop"
    /\ closeObjs' = {pybullet_objects[i].obj : i \in 1..Len(pybullet_objects)}
    /\ UNCHANGED <<pybullet_objects, constructed, objType, destroyCalls, pose,
                   dyn, counter, stepping, connected, pc, req, obj, resp,
                   closeKey,
                   options, parsed>>

\* Lines 377-378: the loop test and `k = list(keys())[0]`.
CloseLoop ==
    /\ closePc = "loop"
    /\ IF Len(pybullet_objects) = 0
         THEN closePc' = "disconnect" /\ UNCHANGED closeKey
         ELSE closePc' = "destroy" /\ closeKey' = pybullet_objects[1].name
    /\ UNCHANGED <<pybullet_objects, constructed, objType, destroyCalls, pose,
                   dyn, counter, stepping, connected, pc, req, obj, resp,
                   closeObjs,
                   options, parsed>>

\* Line 379, first half of `del self.pybullet_objects[k]`; close catches
\* nothing, so any exception ends it.
CloseDestroy ==
    /\ closePc = "destroy"
    /\ \E out \in DestroyOutcomes \cup {"missing"} :
        /\ DelItemDestroy(closeKey, out)
        /\ closePc' = IF out = "ok" THEN "unmap" ELSE "raised"
    /\ UNCHANGED <<pybullet_objects, constructed, objType, counter,
                   stepping, connected, pc, req, obj, resp, closeKey, closeObjs,
                   options, parsed>>

\* Line 379, second half of the del statement.
CloseUnmap ==
    /\ closePc = "unmap"
    /\ \E out \in {"ok", "KeyError"} :
        /\ DelItemUnmap(closeKey, out)
        /\ closePc' = IF out = "ok" THEN "loop" ELSE "raised"
    /\ UNCHANGED <<constructed, objType, destroyCalls, pose, dyn, counter,
                   stepping, connected, pc, req, obj, resp, closeKey, closeObjs,
                   options, parsed>>

\* Line 382: self.pybullet_instance.close().
CloseDisconnect ==
    /\ closePc = "disconnect"
    /\ connected' = FALSE
    /\ closePc' = "done"
    /\ UNCHANGED <<pybullet_objects, constructed, objType, destroyCalls, pose,
                   dyn, counter, stepping, pc, req, obj, resp, closeKey, closeObjs,
                   options, parsed>>

\* -------------------------------------------------------- specifications --
\* Kind codes the environment sends: a class without dynamics, a class with
\* dynamics, and a code PybulletObject.msg does not define.
SomeKinds == {VISUAL, DYNAMIC, MaxKindCode}

\* Object lifecycle: one handler thread serving AddObject and RemoveObject
\* requests of every shape, and the shutdown hook.
LifeRequests ==
    AddRequests(Names, SomeKinds, AnySource) \cup NameRequests("remove", Names)

Next ==
    \/ StartRequest("h1", LifeRequests)
    \/ AddBegin("h1")
    \/ AddConstruct("h1")
    \/ AddSetItem("h1")
    \/ RemoveDestroy("h1")
    \/ RemoveUnmap("h1")
    \/ CloseStart
    \/ CloseLoop
    \/ CloseDestroy
    \/ CloseUnmap
    \/ CloseDisconnect

Spec == Init /\ [][Next]_vars

\* Dynamics and pose: one handler thread serving adds and the three requests
\* addressed to an object, next to the stepper.
DynRequests ==
    AddRequests(Names, {VISUAL, DYNAMIC}, GoodSource)
    \cup NameRequests("get_dynamics", Names)
    \cup NameRequests("get_position", Names)
    \cup ChangeSubsetRequests(Names, DynVals)

NextDyn ==
    \/ StartRequest("h1", DynRequests)
    \/ AddBegin("h1")
    \/ AddConstruct("h1")
    \/ AddSetItem("h1")
    \/ CheckName("h1")
    \/ GetObject("h1")
    \/ GetDynamicsCall("h1")
    \/ ChangeDynamicsCall("h1")
    \/ GetPositionCall("h1")
    \/ StepBegin
    \/ StepEnd

SpecDyn == Init /\ [][NextDyn]_vars

\* Concurrency: two handler threads serving requests for one name.
ConcRequests ==
    AddRequests({"box1"}, {DYNAMIC}, GoodSource)
    \cup NameRequests("remove", {"box1"})
    \cup NameRequests("get_dynamics", {"box1"})
    \cup NameRequests("get_position", {"box1"})
    \cup ChangeRequests({"box1"}, {1})

NextConc ==
    \/ \E t \in Handlers : StartRequest(t, ConcRequests)
    \/ \E t \in Handlers : AddBegin(t)
    \/ \E t \in Handlers : AddConstruct(t)
    \/ \E t \in Handlers : AddSetItem(t)
    \/ \E t \in Handlers : RemoveDestroy(t)
    \/ \E t \in Handlers : RemoveUnmap(t)
    \/ \E t \in Handlers : CheckName(t)
    \/ \E t \in Handlers : GetObject(t)
    \/ \E t \in Handlers : GetDynamicsCall(t)
    \/ \E t \in Handlers : ChangeDynamicsCall(t)
    \/ \E t \in Handlers : GetPositionCall(t)

SpecConc == Init /\ [][NextConc]_vars

\* ------------------------------------------------------------- claims ----
\* The request gets as far as PybulletObjects.add: its kind code is known,
\* it names a config source, and that source loads.
ReachesAdd(r) ==
    /\ ObjectTypeOf(r.kind) # "unrecognized"
    /\ r.filename \/ r.config
    /\ r.loadable

\* C1: an AddObject request that reaches the registry's add while its config
\* name is registered fails with the duplicate-name error in that step,
\* constructs no object, and leaves the registry (keys and mapped objects)
\* and every object as they were.
C1_DuplicateAddRejected ==
    [][\A t \in Handlers :
         (/\ pc[t] = "add_begin"
          /\ pc'[t] # "add_begin"
          /\ ReachesAdd(req[t])
          /\ req[t].name \in DictKeys(pybullet_objects))
         => /\ resp'[t].status = "failure"
            /\ resp'[t].message = "duplicate_name"
            /\ constructed' = constructed
            /\ objType' = objType
            /\ pose' = pose
            /\ pybullet_objects' = pybullet_objects]_vars

\* A duplicate add has been answered while the first entry is still there.
C1_Witness ==
    \E t \in Handlers :
        /\ resp[t].op = "add"
        /\ resp[t].message = "duplicate_name"
        /\ Len(pybullet_objects) > 0

\* C2: a RemoveObject request for a name that is not registered is answered
\* success=false with the unknown-name message in that step; no destroy is
\* invoked on any object and the registry keeps its entries.
C2_RemoveUnknownRejected ==
    [][\A t \in Handlers :
         (/\ pc[t] = "rm_destroy"
          /\ pc'[t] # "rm_destroy"
          /\ req[t].name \notin DictKeys(pybullet_objects))
         => /\ resp'[t].status = "failure"
            /\ resp'[t].message = "does_not_exist"
            /\ destroyCalls' = destroyCalls
            /\ pose' = pose
            /\ pybullet_objects' = pybullet_objects]_vars

\* An unknown name has been refused next to a registered one, and no
\* destroy() has ever run.
C2_Witness ==
    \E t \in Handlers :
        /\ resp[t].op = "remove"
        /\ resp[t].message = "does_not_exist"
        /\ Len(pybullet_objects) = 1
        /\ \A o \in Objs : destroyCalls[o] = 0

\* The step of handler t constructs, destroys or writes in the backend.
TouchesBackend(t) ==
    /\ pc'[t] # pc[t]
    /\ \/ pc[t] = "add_construct" /\ constructed' # constructed
       \/ pc[t] = "rm_destroy" /\ destroyCalls' # destroyCalls
       \/ pc[t] = "cd_call" /\ dyn' # dyn
       \/ pc[t] = "gp_call" /\ resp'[t].status = "success"

\* C3: no handler constructs, destroys, changes dynamics or resets a pose
\* while a simulation step is in progress: a ChangeDynamics takes effect
\* before the step begins or after it has ended.
C3_StepExcludesMutation ==
    [][\A t \in Handlers : TouchesBackend(t) => ~stepping]_vars

\* C4: no handler ends by propagating an exception; every request is
\* answered with a response.
C4_NoHandlerRaises ==
    \A t \in Handlers : resp[t].status # "raised"

\* C5: a GetDynamics or ChangeDynamics request addressed to an object whose
\* class has no link-indexed dynamics is answered success=false with the
\* unsupported-operation error, and changes no object and no registry entry.
C5_UnsupportedAnswered ==
    [][\A t \in Handlers :
         (/\ pc[t] \in {"gd_call", "cd_call"}
          /\ pc'[t] # pc[t]
          /\ ~SupportsDynamics(objType[obj[t]]))
         => /\ resp'[t].status = "failure"
            /\ resp'[t].message = "UnsupportedOperation"
            /\ dyn' = dyn
            /\ pose' = pose
            /\ pybullet_objects' = pybullet_objects]_vars

\* C6: GetPosition is a pure read: the step that serves it changes no pose,
\* no dynamics, no registry entry and no node state.
C6_GetPositionPure ==
    [][\A t \in Handlers :
         (pc[t] = "gp_call" /\ pc'[t] # pc[t])
         => /\ pose' = pose
            /\ dyn' = dyn
            /\ counter' = counter
            /\ pybullet_objects' = pybullet_objects]_vars

\* C7: when RemoveObject meets a registered name and destroy() fails, the
\* name is unmapped all the same and the response is success=false.
C7_FailedDestroyUnmaps ==
    [][\A t \in Handlers :
         (/\ pc[t] = "rm_destroy"
          /\ req[t].name \in DictKeys(pybullet_objects)
          /\ pc'[t] = "idle")
         => /\ resp'[t].status = "failure"
            /\ req[t].name \notin DictKeys(pybullet_objects')]_vars

\* C8: once a close() that began with N >= 1 registered objects has ended,
\* none of those objects is registered any more, each of them has received
\* exactly one destroy(), and the backend connection has been released.
C8_CloseDrains ==
    (closePc \in {"done", "raised"} /\ closeObjs # {})
    => /\ \A i \in 1..Len(pybullet_objects) :
              pybullet_objects[i].obj \notin closeObjs
       /\ \A o \in closeObjs : destroyCalls[o] = 1
       /\ ~connected

\* C9: no object instance receives a second destroy() call.
C9_DestroyAtMostOnce ==
    \A o \in Objs : destroyCalls[o] <= 1

\* C10: get_dynamics, change_dynamics and the pose calls are never invoked
\* on an object whose destroy() has started.
C10_NoUseAfterDestroy ==
    [][\A t \in Handlers :
         (pc[t] \in {"gd_call", "cd_call", "gp_call"} /\ pc'[t] # pc[t])
         => destroyCalls[obj[t]] = 0]_vars

\* Name resolution: one handler thread serving adds, removes and the three
\* requests addressed to an object, one after the other.
RegRequests ==
    AddRequests(Names, {VISUAL, DYNAMIC}, GoodSource)
    \cup NameRequests("remove", Names)
    \cup NameRequests("get_dynamics", Names)
    \cup NameRequests("get_position", Names)
    \cup ChangeRequests(Names, {1})

NextReg ==
    \/ StartRequest("h1", RegRequests)
    \/ AddBegin("h1")
    \/ AddConstruct("h1")
    \/ AddSetItem("h1")
    \/ RemoveDestroy("h1")
    \/ RemoveUnmap("h1")
    \/ CheckName("h1")
    \/ GetObject("h1")
    \/ GetDynamicsCall("h1")
    \/ ChangeDynamicsCall("h1")
    \/ GetPositionCall("h1")

SpecReg == Init /\ [][NextReg]_vars

\* Handler t answers in this step with success and the given message.
Succeeds(t, message) ==
    /\ pc[t] # "idle"
    /\ pc'[t] = "idle"
    /\ resp'[t].status = "success"
    /\ resp'[t].message = message

\* C11: a name becomes registered exactly in the step in which an AddObject
\* for it is answered with success, stops being registered exactly in the
\* step in which a RemoveObject for it is answered with success, and the name
\* check of GetPosition, GetDynamics and ChangeDynamics passes exactly when
\* the name is registered, answering the unknown-name error otherwise.  So a
\* name resolves exactly when its last successful add has not been followed
\* by a successful remove.
C11_ResolvesIffAddedNotRemoved ==
    [][\A n \in Names :
         LET before == n \in DictKeys(pybullet_objects)
             after == n \in DictKeys(pybullet_objects')
             added == \E t \in Handlers :
                          req[t].op = "add" /\ req[t].name = n
                          /\ Succeeds(t, "added")
             removed == \E t \in Handlers :
                            req[t].op = "remove" /\ req[t].name = n
                            /\ Succeeds(t, "removed")
         IN /\ added <=> (~before /\ after)
            /\ removed <=> (before /\ ~after)
            /\ \A t \in Handlers :
                 (pc[t] = "check" /\ pc'[t] # "check" /\ req[t].name = n)
                 => IF before
                      THEN pc'[t] = "get"
                      ELSE /\ resp'[t].status = "failure"
                           /\ resp'[t].message = "name_unrecognized"]_vars

\* A GetPosition has been refused for a name that was added and then removed
\* with success.
C11_Witness ==
    /\ resp["h1"].op = "get_position"
    /\ resp["h1"].message = "name_unrecognized"
    /\ constructed = 1
    /\ destroyCalls[1] = 1
    /\ pybullet_objects = <<>>

\* C12: an AddObject whose config does not load, or whose object the class
\* fails to construct, is answered success=false and leaves the registry
\* with exactly the entries it had; and every entry of the registry maps its
\* name to a fully constructed object.
C12_FailedAddLeavesRegistry ==
    [][/\ \A t \in Handlers :
            (\/ /\ pc[t] = "add_begin"
                /\ pc'[t] # "add_begin"
                /\ ObjectTypeOf(req[t].kind) # "unrecognized"
                /\ req[t].filename \/ req[t].config
                /\ ~req[t].loadable
             \/ /\ pc[t] = "add_construct"
                /\ pc'[t] = "idle")
            => /\ resp'[t].status = "failure"
               /\ pybullet_objects' = pybullet_objects
       /\ \A i \in 1..Len(pybullet_objects') :
            /\ pybullet_objects'[i].obj \in 1..constructed'
            /\ objType'[pybullet_objects'[i].obj] # "none"]_vars

\* A construction has failed while another entry was registered, and that
\* entry is all the registry holds.
C12_Witness ==
    /\ resp["h1"].op = "add"
    /\ resp["h1"].message = "construct_error"
    /\ Len(pybullet_objects) = 1
    /\ constructed = 1

\* C13: a ChangeDynamics that succeeds leaves, in every field the client
\* set, the written value, and in every field the client did not set, the
\* value held before; a GetDynamics that succeeds returns the values held.
C13_ChangeThenGetRoundTrip ==
    [][\A t \in Handlers :
         /\ (pc[t] = "cd_call" /\ pc'[t] = "idle"
                /\ resp'[t].status = "success")
            => LET o == obj[t]
                   r == req[t]
               IN /\ dyn'[o].mass =
                        IF "mass" \in r.fieldsSet
                          THEN r.dynamics.mass ELSE dyn[o].mass
                  /\ dyn'[o].lateralFriction =
                        IF "lateralFriction" \in r.fieldsSet
                          THEN r.dynamics.lateralFriction
                          ELSE dyn[o].lateralFriction
         /\ (pc[t] = "gd_call" /\ pc'[t] = "idle"
                /\ resp'[t].status = "success")
            => resp'[t].payload = dyn[obj[t]]]_vars

\* C14: a GetPosition that reaches a registered object and returns answers
\* success=true and carries the pose the object had when it was read.
C14_GetPositionReturnsPose ==
    [][\A t \in Handlers :
         (pc[t] = "gp_call" /\ pc'[t] = "idle" /\ resp'[t].status # "raised")
         => /\ resp'[t].status = "success"
            /\ resp'[t].position = pose[obj[t]]]_vars

\* Kind codes: one handler thread serving AddObject requests of every kind
\* code and every shape of config source.
KindRequests == AddRequests(Names, 0..MaxKindCode, AnySource)

NextKinds ==
    \/ StartRequest("h1", KindRequests)
    \/ AddBegin("h1")
    \/ AddConstruct("h1")
    \/ AddSetItem("h1")

SpecKinds == Init /\ [][NextKinds]_vars

\* C15: AddObject builds the class the table 0=Visual, 1=Collision,
\* 2=Dynamic, 3=Robot, 4=SoftBody, 5=URDF gives for the kind code; for any
\* other code it answers success=false with the unrecognized-kind message
\* (even when the config could not have been loaded), constructs nothing and
\* leaves the registry unchanged.
C15_KindCodesClosed ==
    [][\A t \in Handlers :
         LET table == <<"PybulletVisualObject", "PybulletCollisionObject",
                        "PybulletDynamicObject", "PybulletRobot",
                        "PybulletSoftBodyObject", "PybulletURDF">>
             k == req[t].kind
         IN /\ (pc[t] = "add_begin" /\ pc'[t] # "add_begin")
               => IF k \in 0..5
                    THEN resp'[t].message # "unrecognized_type"
                    ELSE /\ pc'[t] = "idle"
                         /\ resp'[t].status = "failure"
                         /\ resp'[t].message = "unrecognized_type"
                         /\ constructed' = constructed
                         /\ objType' = objType
                         /\ pybullet_objects' = pybullet_objects
            /\ (pc[t] = "add_construct" /\ pc'[t] = "add_setitem")
               => /\ k \in 0..5
                  /\ objType'[obj'[t]] = table[k + 1]]_vars

\* An unknown kind code has been refused while the registry holds an object
\* built from code 5.
C15_Witness ==
    /\ resp["h1"].op = "add"
    /\ resp["h1"].message = "unrecognized_type"
    /\ Len(pybullet_objects) = 1
    /\ objType[pybullet_objects[1].obj] = "PybulletURDF"

\* C16: an AddObject with a recognized kind code and neither filename nor
\* config is answered success=false with the missing-source message and
\* never enters add(), so nothing is constructed and the registry is
\* unchanged; add() goes on to construct only for a request that has a
\* filename or a config, and a request passes through the handler's entry
\* once.
C16_MissingSourceRejected ==
    [][\A t \in Handlers :
         /\ (/\ pc[t] = "add_begin"
             /\ pc'[t] # "add_begin"
             /\ ObjectTypeOf(req[t].kind) # "unrecognized"
             /\ ~req[t].filename
             /\ ~req[t].config)
            => /\ pc'[t] = "idle"
               /\ resp'[t].status = "failure"
               /\ resp'[t].message = "missing_config"
               /\ constructed' = constructed
               /\ pybullet_objects' = pybullet_objects
         /\ (pc[t] # "add_construct" /\ pc'[t] = "add_construct")
            => /\ pc[t] = "add_begin"
               /\ req[t].filename \/ req[t].config
         /\ (pc[t] # "add_begin" /\ pc'[t] = "add_begin")
            => pc[t] = "idle"]_vars

\* A request without a config source has been refused while another object
\* was registered.
C16_Witness ==
    /\ resp["h1"].op = "add"
    /\ resp["h1"].message = "missing_config"
    /\ Len(pybullet_objects) = 1

\* -------------------------------------------------------- parse_options --
\* The characters of the strings tried: two that make flag names, one that
\* names another attribute of the module, and the separator.
Chars == {"A", "B", "F", "|"}

Strings == UNION {[1..k -> Chars] : k \in 0..MaxStrLen}

\* Line 125, getattr(pybullet, opt): three flags with integer values, one
\* attribute that is a function; any other name raises AttributeError.
getattr(name) ==
    CASE name = <<"A">> -> Returned(IntVal(1))
      [] name = <<"B">> -> Returned(IntVal(2))
      [] name = <<"A", "B">> -> Returned(IntVal(4))
      [] name = <<"F">> -> Returned(FunctionVal)
      [] OTHER -> RaisedError("AttributeError")

\* Line 121, str.split('|'): the pieces between separators, empty ones too.
RECURSIVE split(_)
split(s) ==
    IF \A i \in 1..Len(s) : s[i] # "|"
      THEN <<s>>
      ELSE LET i == CHOOSE i \in 1..Len(s) :
                        s[i] = "|" /\ \A j \in 1..(i - 1) : s[j] # "|"
           IN <<SubSeq(s, 1, i - 1)>> \o split(SubSeq(s, i + 1, Len(s)))

\* Lines 104-106.
is_list_str(ls) == \A i \in 1..Len(ls) : ls[i].type = "str"

\* Lines 108-110.
is_list_int(ls) == \A i \in 1..Len(ls) : ls[i].type = "int"

\* An |= that adds its operands.
BitOr_Plus(a, b) == a + b

\* Line 131, out |= opt, on non-negative integers.
RECURSIVE BitOr(_, _)
BitOr(a, b) ==
    IF a = 0 THEN b
    ELSE IF b = 0 THEN a
    ELSE (IF a % 2 = 1 \/ b % 2 = 1 THEN 1 ELSE 0)
            + 2 * BitOr(a \div 2, b \div 2)

\* Lines 130-131: the loop over options[1:].
RECURSIVE OrAll(_, _)
OrAll(out, rest) ==
    IF rest = <<>> THEN out
    ELSE OrAll(BitOr(out, Head(rest).n), Tail(rest))

\* Lines 112-134.
parse_options(opts) ==
    IF opts.type = "int"
      THEN Returned(opts)
    ELSE LET ls == IF opts.type = "str"
                     THEN LET parts == split(opts.s)
                          IN ListVal([i \in 1..Len(parts) |-> StrVal(parts[i])])
                     ELSE opts
         IN IF ls.type # "list"
              THEN RaisedError("TypeError")
            ELSE LET attrs == [i \in 1..Len(ls.items) |-> getattr(ls.items[i].s)]
                     strs == is_list_str(ls.items)
                 IN IF strs /\ \E i \in 1..Len(attrs) : attrs[i].status # "ok"
                      THEN RaisedError("AttributeError")
                    ELSE LET ints == IF strs
                                       THEN [i \in 1..Len(attrs) |-> attrs[i].value]
                                       ELSE ls.items
                         IN IF ~is_list_int(ints)
                              THEN RaisedError("ValueError")
                            ELSE IF Len(ints) = 0
                              THEN RaisedError("IndexError")
                            ELSE Returned(IntVal(OrAll(ints[1].n, Tail(ints))))

\* The elements of the lists tried.
ListEls ==
    {IntVal(n) : n \in 0..MaxOptInt}
    \cup {StrVal(s) : s \in {<<"A">>, <<"B">>, <<"A", "B">>, <<"F">>, <<"Z">>, <<>>}}
    \cup {NoneVal}

Lists == UNION {[1..k -> ListEls] : k \in 0..MaxListLen}

\* The arguments parse_options is tried on.
OptionInputs ==
    {IntVal(n) : n \in 0..MaxOptInt}
    \cup {StrVal(s) : s \in Strings}
    \cup {ListVal(l) : l \in Lists}
    \cup {NoneVal}

InitOptions ==
    /\ InitNode
    /\ options \in OptionInputs
    /\ parsed = NotParsed

\* One call of the static method.
ParseOptions ==
    /\ parsed = NotParsed
    /\ parsed' = parse_options(options)
    /\ UNCHANGED <<pybullet_objects, constructed, objType, destroyCalls, pose,
                   dyn, counter, stepping, connected, pc, req, obj, resp,
                   closePc, closeKey, closeObjs, options>>

NextOptions == ParseOptions

SpecOptions == InitOptions /\ [][NextOptions]_vars

\* The names that resolve to an integer flag of the backend namespace.
FlagNames ==
    {s \in Strings : /\ \A i \in 1..Len(s) : s[i] # "|"
                     /\ getattr(s).status = "ok"
                     /\ getattr(s).value.type = "int"}

\* v is the bitwise OR of a and b: bit by bit, set in v iff set in a or b.
IsOrOf(v, a, b) ==
    /\ v \in 0..15
    /\ \A i \in 0..3 :
         ((v \div 2^i) % 2 = 1) <=> ((a \div 2^i) % 2 = 1 \/ (b \div 2^i) % 2 = 1)

\* C17: for flag names A and B with values a and b, parse_options("A|B"),
\* parse_options(["A","B"]) and parse_options([a, b]) return a|b;
\* parse_options(n) returns n for an integer n; a list mixing strings and
\* integers fails with ValueError.
C17_ParseOptionsShapesAgree ==
    parsed # NotParsed =>
      /\ options.type = "int" => parsed = Returned(options)
      /\ \A A \in FlagNames, B \in FlagNames :
           LET a == getattr(A).value.n
               b == getattr(B).value.n
           IN options \in {StrVal(A \o <<"|">> \o B),
                           ListVal(<<StrVal(A), StrVal(B)>>),
                           ListVal(<<IntVal(a), IntVal(b)>>)}
              => /\ parsed.status = "ok"
                 /\ parsed.value.type = "int"
                 /\ IsOrOf(parsed.value.n, a, b)
      /\ (/\ options.type = "list"
          /\ \E i \in 1..Len(options.items) : options.items[i].type = "str"
          /\ \E i \in 1..Len(options.items) : options.items[i].type = "int")
         => parsed.status = "ValueError"

\* parse_options("A|B") has returned 1|2.
C17_Witness ==
    /\ options = StrVal(<<"A", "|", "B">>)
    /\ parsed = Returned(IntVal(3))

\* The arguments of the four accepted shapes: an integer, a pipe-delimited
\* string of flag names, a non-empty list of flag names, a non-empty list of
\* integers.
AcceptedShape(opts) ==
    \/ opts.type = "int"
    \/ /\ opts.type = "str"
       /\ \A i \in 1..Len(split(opts.s)) : split(opts.s)[i] \in FlagNames
    \/ /\ opts.type = "list"
       /\ opts.items # <<>>
       /\ \/ \A i \in 1..Len(opts.items) :
               /\ opts.items[i].type = "str"
               /\ opts.items[i].s \in FlagNames
          \/ is_list_int(opts.items)

\* C18: parse_options returns a value or fails with ValueError, nothing
\* else; and every argument outside the four accepted shapes (the empty
\* list, the empty string and an unknown flag name among them) fails with
\* ValueError.
C18_OnlyValueError ==
    parsed # NotParsed =>
      /\ parsed.status \in {"ok", "ValueError"}
      /\ ~AcceptedShape(options) => parsed.status = "ValueError"

\* C19: of two concurrent AddObject requests for one name, at most one has
\* an object constructed for it at a time, and every object constructed is
\* registered, or destroyed, or still on its way into the registry.
C19_ConcurrentAddBuildsOne ==
    /\ \A t \in Handlers, u \in Handlers :
         (/\ t # u
          /\ pc[t] = "add_setitem"
          /\ pc[u] = "add_setitem")
         => req[t].name # req[u].name
    /\ \A o \in 1..constructed :
         \/ \E i \in 1..Len(pybullet_objects) : pybullet_objects[i].obj = o
         \/ destroyCalls[o] > 0
         \/ \E t \in Handlers : pc[t] = "add_setitem" /\ obj[t] = o

\* C20: a RemoveObject that finds its name registered never answers with
\* the does-not-exist message: when destroy() raises, whatever it raises,
\* the answer is the failed-to-remove failure, and when the entry is dropped
\* the answer is success.
C20_ExistingNameNeverUnknown ==
    [][\A t \in Handlers :
         /\ (/\ pc[t] = "rm_destroy"
             /\ req[t].name \in DictKeys(pybullet_objects)
             /\ pc'[t] = "idle")
            => /\ resp'[t].status = "failure"
               /\ resp'[t].message = "failed_to_remove"
         /\ (/\ pc[t] = "rm_unmap"
             /\ req[t].name \in DictKeys(pybullet_objects)
             /\ pc'[t] = "idle")
            => /\ resp'[t].status = "success"
               /\ resp'[t].message = "removed"]_vars

====
